---- MODULE Spec2Model ----
(***************************************************************************)
(* Model of the backup pipeline of db-backup-goog: main.rs sequences       *)
(* authenticate -> find_or_create_folder -> produce -> upload_file ->      *)
(* prune_old_backups -> remove_file for the commands db, minecraft, all    *)
(* and prune.  Every .await on a remote call or a file system call is one  *)
(* step; the outcome of the call is chosen by the environment.             *)
(***************************************************************************)
EXTENDS Integers, Sequences, FiniteSets, TLC

\* ---------------------------------------------------------------- bounds
\* Largest number of entries a Drive folder holds in the initial state of
\* the pruner's specification.
MaxFiles == 3
\* Largest number of entries the directory-backup folder holds in the
\* initial state of a whole run.
RunFiles == 1
\* Creation times are drawn from 1..MaxTime.
MaxTime == 3
\* mc_retention_count is drawn from 0..MaxKeep.
MaxKeep == 2
\* Entries per listing page (the code asks for 1000, prune.rs:29).
PageSize == 2
\* Folders of one name that exist under the parent in the initial state.
MaxDup == 1
\* Number of page requests for which a server that answers every page with
\* a cursor is followed.
MaxPages == 3
\* Longest folder name, in characters, that find_or_create_folder is given
\* where its escaping is examined.
MaxName == 3

\* ------------------------------------------------------------- constants
\* Option::None of a Drive id (file.id, created.id).
NoId == 0
\* Option::None of a page token, and the empty token "".
NoToken == -2
EmptyToken == -1
\* prune_old_backups has not returned / returned Err.
NotReturned == -1
PruneErr == -2

Commands == {"db", "minecraft", "all", "prune"}
Stages == {"db", "mc"}

VARIABLES
    cmd,            \* cli.command
    keep,           \* config.mc_retention_count
    pc,             \* position of main / run_* / the function it awaits
    stage,          \* which kind the run is working on: "db" or "mc"
    folders,        \* Drive: stage -> ids of the folders of that name under the parent
    content,        \* Drive: folder id -> entries, in "createdTime desc" order
    nextKey,        \* Drive: next id the server assigns
    localFile,      \* temp dir: stage -> "absent" | "writing" (open for writing)
                    \*           | "partial" (closed, incomplete) | "present"
    folder_id,      \* folder_id / db_folder_id / mc_folder_id
    all_files,      \* list_all_files_in_folder: all_files
    page_token,     \* list_all_files_in_folder: page_token
    idx,            \* prune_old_backups: position of the for loop in files
    deleted_count,  \* prune_old_backups: deleted_count
    prune_ret,      \* what prune_old_backups returned: NotReturned, PruneErr or Ok(n)
    result,         \* result of the command: "none" | "ok" | the message of its Err
    exit,           \* ExitCode of main: "none" | "SUCCESS" | "FAILURE"
    log,            \* history of the calls made, oldest first
    before,         \* the listed folder as Drive held it at the first list request
    next_page_token,\* list_all_files_in_folder: result.next_page_token of the last page
    name,           \* find_or_create_folder: name, a sequence of characters
    escaped_name    \* find_or_create_folder: escaped_name

vars == <<cmd, keep, pc, stage, folders, content, nextKey, localFile, folder_id,
          all_files, page_token, idx, deleted_count, prune_ret, result, exit, log, before,
          next_page_token, name, escaped_name>>

\* ------------------------------------------------------------ Drive side
\* A folder entry as Drive holds it.  key is the server's identity of the
\* entry; id is what a files.list response carries for it (NoId when the
\* response omits the field).
Entry(k, i, t, f, tr) ==
    [key |-> k, id |-> i, createdTime |-> t, mimeFolder |-> f, trashed |-> tr]

\* "trashed = false and mimeType != 'application/vnd.google-apps.folder'"
MatchesListQuery(e) == ~e.trashed /\ ~e.mimeFolder

\* files.list(q, orderBy = createdTime desc) of a folder, all pages together.
ServerListing(fid) == SelectSeq(content[fid], MatchesListQuery)

\* A sequence of entries is in descending creation-time order.
IsDesc(s) == \A i \in 1..Len(s) - 1 : s[i].createdTime >= s[i + 1].createdTime

SubSeqFrom(s, from) == SubSeq(s, from, Len(s))

\* Removing the entry with the given id from a folder.
RemoveId(s, i) == SelectSeq(s, LAMBDA e : e.key # i)

Min(a, b) == IF a < b THEN a ELSE b

\* ------------------------------------------------------------ the history
\* val: the id a create or delete is about, the number of matches of a
\* search, the number of entries of a listing page.
Ev(op, st, ok, v) == [op |-> op, stage |-> st, ok |-> ok, val |-> v]
Logged(op, st, ok, v) == log' = Append(log, Ev(op, st, ok, v))

\* ------------------------------------------------------------ control flow
\* The command returned Err(e), e being the message of the anyhow error:
\* main logs it and maps it to FAILURE.
ReturnErr(e) ==
    /\ pc' = "ret"
    /\ result' = e

ReturnOk ==
    /\ pc' = "ret"
    /\ result' = "ok"

\* The result is an Err.
IsErr(r) == r \notin {"none", "ok"}

\* Where run_* goes on once the destination folder is resolved.
AfterFolder == IF cmd = "prune" THEN "list"
               ELSE IF stage = "db" THEN "dump" ELSE "archive"

\* Every kind pruned after its upload.
AfterUploadPrunesEveryKind == "list"

\* Where run_* goes on once upload_file returned Ok: the database kind has
\* no retention policy, the directory kind is pruned.
AfterUpload == IF stage = "db" THEN "remove" ELSE "list"

\* ------------------------------------------------------------------ main
\* main.rs:55-61  Config::from_env()
ConfigFromEnv ==
    /\ pc = "config"
    /\ \E ok \in BOOLEAN :
          IF ok THEN pc' = "tempdir" /\ exit' = exit
                ELSE pc' = "done" /\ exit' = "FAILURE"
    /\ UNCHANGED <<name, escaped_name, next_page_token,
                   before, cmd, keep, stage, folders, content, nextKey, localFile,
                   folder_id, all_files, page_token, idx, deleted_count,
                   prune_ret, result, log>>

\* main.rs:64-71  create_dir_all(&config.backup_temp_dir)
CreateTempDir ==
    /\ pc = "tempdir"
    /\ \E ok \in BOOLEAN :
          IF ok THEN pc' = "auth" /\ exit' = exit
                ELSE pc' = "done" /\ exit' = "FAILURE"
    /\ UNCHANGED <<name, escaped_name, next_page_token,
                   before, cmd, keep, stage, folders, content, nextKey, localFile,
                   folder_id, all_files, page_token, idx, deleted_count,
                   prune_ret, result, log>>

\* An authentication error that is logged and not returned.
BuildHubFailureIgnored ==
    /\ pc = "auth"
    /\ \E ok \in BOOLEAN : Logged("auth", stage, ok, NoId)
    /\ pc' = "search"
    /\ UNCHANGED <<name, escaped_name, next_page_token,
                   before, cmd, keep, stage, folders, content, nextKey, localFile,
                   folder_id, all_files, page_token, idx, deleted_count, prune_ret,
                   result, exit>>

\* main.rs:93, 114, 141, 185  drive::auth::build_hub(..).await?
BuildHub ==
    /\ pc = "auth"
    /\ \E ok \in BOOLEAN :
          /\ Logged("auth", stage, ok, NoId)
          /\ IF ok THEN pc' = "search" /\ result' = result
                   ELSE ReturnErr("Failed to build Drive hub")
    /\ UNCHANGED <<name, escaped_name, next_page_token,
                   before, cmd, keep, stage, folders, content, nextKey, localFile,
                   folder_id, all_files, page_token, idx, deleted_count, prune_ret, exit>>

\* The Err arm that logs and still reports success.
ExitCodeAlwaysSuccess(r) == "SUCCESS"

\* main.rs:80-89  match result { Ok => SUCCESS, Err => FAILURE }
ExitCodeOf(r) == IF r = "ok" THEN "SUCCESS" ELSE "FAILURE"

MainExit ==
    /\ pc = "ret"
    /\ pc' = "done"
    /\ exit' = ExitCodeOf(result)
    /\ UNCHANGED <<name, escaped_name, next_page_token,
                   before, cmd, keep, stage, folders, content, nextKey, localFile,
                   folder_id, all_files, page_token, idx, deleted_count,
                   prune_ret, result, log>>

\* ------------------------------------------------- find_or_create_folder
\* The characters of a folder name: two ordinary ones, the single quote
\* and the backslash.
Quote == "'"
Backslash == "\\"
Alphabet == {"a", "b", Quote, Backslash}
Names == UNION {[1..n -> Alphabet] : n \in 0..MaxName}

\* str::replace(c, r): every occurrence of the character c gives way to the
\* characters r, from left to right.
RECURSIVE Replace(_, _, _)
Replace(s, c, r) ==
    IF s = <<>> THEN <<>>
    ELSE (IF Head(s) = c THEN r ELSE <<Head(s)>>) \o Replace(Tail(s), c, r)

\* The two replacements in the other order: quotes first.
EscapedNameQuotesFirst(n) ==
    Replace(Replace(n, Quote, <<Backslash, Quote>>), Backslash, <<Backslash, Backslash>>)

\* upload.rs:17  name.replace('\\', "\\\\").replace('\'', "\\'")
EscapedName(n) ==
    Replace(Replace(n, Backslash, <<Backslash, Backslash>>), Quote, <<Backslash, Quote>>)

\* upload.rs:16-21  the query is built from the escaped name.
BuildQuery ==
    /\ pc = "query"
    /\ escaped_name' = EscapedName(name)
    /\ Logged("query", stage, TRUE, NoId)
    /\ pc' = "search"
    /\ UNCHANGED <<name, next_page_token,
                   before, cmd, keep, stage, folders, content, nextKey, localFile,
                   folder_id, all_files, page_token, idx, deleted_count, prune_ret,
                   result, exit>>

\* What files.list answers to the folder query: the folders of that name,
\* each with its id or without one (File.id is an Option).
SearchResponses(st) ==
    {r \in [1..Len(folders[st]) -> {NoId} \cup {folders[st][i] : i \in 1..Len(folders[st])}] :
        \A i \in 1..Len(folders[st]) : r[i] \in {NoId, folders[st][i]}}

\* upload.rs:41-47  files.first() with an id, else fall through to create.
FirstId(resp) == IF Len(resp) > 0 /\ resp[1] # NoId THEN resp[1] ELSE NoId

\* A failed search taken for an empty result: the folder is created.
FolderSearchFailCreates ==
    /\ pc = "search"
    /\ Logged("search", stage, FALSE, NoId)
    /\ pc' = "create"
    /\ UNCHANGED <<name, escaped_name, next_page_token,
                   before, cmd, keep, stage, folders, content, nextKey, localFile,
                   folder_id, all_files, page_token, idx, deleted_count,
                   prune_ret, result, exit>>

\* upload.rs:23-39  the search request failed.
FolderSearchFail ==
    /\ pc = "search"
    /\ Logged("search", stage, FALSE, NoId)
    /\ ReturnErr("Failed to search for folder")
    /\ UNCHANGED <<name, escaped_name, next_page_token,
                   before, cmd, keep, stage, folders, content, nextKey, localFile,
                   folder_id, all_files, page_token, idx, deleted_count, prune_ret, exit>>

\* upload.rs:23-47  the search answered and its first entry carries an id.
FolderSearchFound ==
    /\ pc = "search"
    /\ \E resp \in SearchResponses(stage) :
          /\ FirstId(resp) # NoId
          /\ folder_id' = FirstId(resp)
          /\ Logged("search", stage, TRUE, Len(resp))
    /\ pc' = AfterFolder
    /\ UNCHANGED <<name, escaped_name, next_page_token,
                   before, cmd, keep, stage, folders, content, nextKey, localFile,
                   all_files, page_token, idx, deleted_count, prune_ret, result, exit>>

\* upload.rs:41-54  no usable first entry: go on to create the folder.
FolderSearchMiss ==
    /\ pc = "search"
    /\ \E resp \in SearchResponses(stage) :
          /\ FirstId(resp) = NoId
          /\ Logged("search", stage, TRUE, Len(resp))
    /\ pc' = "create"
    /\ UNCHANGED <<name, escaped_name, next_page_token,
                   before, cmd, keep, stage, folders, content, nextKey, localFile,
                   folder_id, all_files, page_token, idx, deleted_count,
                   prune_ret, result, exit>>

\* upload.rs:71-92  files.create answered with the new folder's id.
FolderCreateOk ==
    /\ pc = "create"
    /\ folders' = [folders EXCEPT ![stage] = Append(@, nextKey)]
    /\ content' = (nextKey :> <<>>) @@ content
    /\ nextKey' = nextKey + 1
    /\ folder_id' = nextKey
    /\ Logged("create", stage, TRUE, nextKey)
    /\ pc' = AfterFolder
    /\ UNCHANGED <<name, escaped_name, next_page_token,
                   before, cmd, keep, stage, localFile, all_files, page_token, idx,
                   deleted_count, prune_ret, result, exit>>

\* upload.rs:79-85  files.create failed.
FolderCreateFail ==
    /\ pc = "create"
    /\ Logged("create", stage, FALSE, NoId)
    /\ ReturnErr("Failed to create folder")
    /\ UNCHANGED <<name, escaped_name, next_page_token,
                   before, cmd, keep, stage, folders, content, nextKey, localFile,
                   folder_id, all_files, page_token, idx, deleted_count, prune_ret, exit>>

\* upload.rs:87-99  the folder was created but the response has no id.
FolderCreateNoId ==
    /\ pc = "create"
    /\ folders' = [folders EXCEPT ![stage] = Append(@, nextKey)]
    /\ content' = (nextKey :> <<>>) @@ content
    /\ nextKey' = nextKey + 1
    /\ Logged("create", stage, TRUE, NoId)
    /\ ReturnErr("Drive created folder but returned no ID")
    /\ UNCHANGED <<name, escaped_name, next_page_token,
                   before, cmd, keep, stage, localFile, folder_id, all_files,
                   page_token, idx, deleted_count, prune_ret, exit>>

\* ------------------------------------------------------------- producers
\* The causes of a producer's Err, as the history records them.
SpawnFailed == 1
ExitNonZero == 2
StatFailed == 3
NoSource == 4
WorkerFailed == 5

\* Two calls recorded one after the other.
Logged2(e1, e2) == log' = log \o <<e1, e2>>

\* db.rs:20-41  pg_dump could not be spawned.
DumpSpawnFail ==
    /\ pc = "dump"
    /\ Logged("produce", stage, FALSE, SpawnFailed)
    /\ ReturnErr("Failed to spawn pg_dump process")
    /\ UNCHANGED <<name, escaped_name, next_page_token,
                   before, cmd, keep, stage, folders, content, nextKey, localFile,
                   folder_id, all_files, page_token, idx, deleted_count,
                   prune_ret, exit>>

\* What is left of the output when pg_dump or the worker stopped early.
LeftBehind(written) == IF written THEN "partial" ELSE "absent"

\* cleanup_temp_file that leaves the file where it is.
CleanupTempFileKeeps(written, removeOk) ==
    IF written THEN "partial" ELSE "absent"

\* db.rs:75-85 and minecraft.rs:131-142  cleanup_temp_file: remove_file,
\* whose failure is logged only.  The file is gone unless it existed and
\* the removal failed.
CleanupTempFile(written, removeOk) ==
    IF written /\ ~removeOk THEN "partial" ELSE "absent"

\* db.rs:20-49  pg_dump ran and exited non-zero, with or without having
\* written its output (val 1 or 0).
DumpExitNonZero ==
    /\ pc = "dump"
    /\ \E written \in BOOLEAN :
          /\ localFile' = [localFile EXCEPT ![stage] = LeftBehind(written)]
          /\ Logged("pg_dump", stage, FALSE, IF written THEN 1 ELSE 0)
    /\ pc' = "dump_cleanup"
    /\ UNCHANGED <<name, escaped_name, next_page_token,
                   before, cmd, keep, stage, folders, content, nextKey, folder_id,
                   all_files, page_token, idx, deleted_count, prune_ret,
                   result, exit>>

\* db.rs:50-51  cleanup_temp_file(&output_path), then bail!.
DumpCleanup ==
    /\ pc = "dump_cleanup"
    /\ \E removeOk \in BOOLEAN :
          /\ localFile' = [localFile EXCEPT ![stage] =
                              CleanupTempFile(localFile[stage] # "absent", removeOk)]
          /\ Logged2(Ev("cleanup", stage, localFile[stage] = "absent" \/ removeOk, NoId),
                     Ev("produce", stage, FALSE, ExitNonZero))
    /\ ReturnErr("pg_dump exited with status")
    /\ UNCHANGED <<name, escaped_name, next_page_token,
                   before, cmd, keep, stage, folders, content, nextKey, folder_id,
                   all_files, page_token, idx, deleted_count, prune_ret, exit>>

\* db.rs:20-43  pg_dump ran and exited zero; its output exists (val 1) or
\* is missing (val 0).
DumpExitZero ==
    /\ pc = "dump"
    /\ \E written \in BOOLEAN :
          /\ localFile' = [localFile EXCEPT ![stage] = IF written THEN "present" ELSE "absent"]
          /\ Logged("pg_dump", stage, TRUE, IF written THEN 1 ELSE 0)
    /\ pc' = "dump_stat"
    /\ UNCHANGED <<name, escaped_name, next_page_token,
                   before, cmd, keep, stage, folders, content, nextKey, folder_id,
                   all_files, page_token, idx, deleted_count, prune_ret,
                   result, exit>>

\* db.rs:54-64  the output is missing or cannot be stat-ed.
DumpStatFail ==
    /\ pc = "dump_stat"
    /\ Logged("produce", stage, FALSE, StatFailed)
    /\ ReturnErr("Failed to stat pg_dump output file")
    /\ UNCHANGED <<name, escaped_name, next_page_token,
                   before, cmd, keep, stage, folders, content, nextKey, localFile,
                   folder_id, all_files, page_token, idx, deleted_count,
                   prune_ret, exit>>

\* db.rs:54-72  the output exists and was stat-ed: Ok(output_path).
DumpOk ==
    /\ pc = "dump_stat"
    /\ localFile[stage] = "present"
    /\ Logged("produce", stage, TRUE, NoId)
    /\ pc' = "upload"
    /\ UNCHANGED <<name, escaped_name, next_page_token,
                   before, cmd, keep, stage, folders, content, nextKey, localFile,
                   folder_id, all_files, page_token, idx, deleted_count, prune_ret,
                   result, exit>>

\* minecraft.rs:17-23  the source directory does not exist.
ArchiveNoSource ==
    /\ pc = "archive"
    /\ Logged("produce", stage, FALSE, NoSource)
    /\ ReturnErr("Minecraft server path does not exist")
    /\ UNCHANGED <<name, escaped_name, next_page_token,
                   before, cmd, keep, stage, folders, content, nextKey, localFile,
                   folder_id, all_files, page_token, idx, deleted_count,
                   prune_ret, exit>>

\* The worker is not awaited: the path is returned while it still writes.
ArchiveSpawnDetached ==
    /\ pc = "archive"
    /\ localFile' = [localFile EXCEPT ![stage] = "writing"]
    /\ Logged("produce", stage, TRUE, NoId)
    /\ pc' = "upload"
    /\ UNCHANGED <<name, escaped_name, next_page_token,
                   before, cmd, keep, stage, folders, content, nextKey,
                   folder_id, all_files, page_token, idx, deleted_count,
                   prune_ret, result, exit>>

\* minecraft.rs:35-106  spawn_blocking(..).await: the closure runs on a
\* blocking thread and backup_minecraft waits for it.
ArchiveSpawn ==
    /\ pc = "archive"
    /\ pc' = "w_create"
    /\ UNCHANGED <<name, escaped_name, next_page_token,
                   before, cmd, keep, stage, folders, content, nextKey, localFile,
                   folder_id, all_files, page_token, idx, deleted_count,
                   prune_ret, result, exit, log>>

\* The steps of the closure, in the order of the code.
WorkerSteps == <<"w_create", "w_encoder", "w_multithread", "w_walk",
                 "w_tar", "w_zstd", "w_flush", "w_stat">>

IndexOf(step) == CHOOSE i \in 1..Len(WorkerSteps) : WorkerSteps[i] = step

\* The closure without tar_builder.into_inner(): the walk is followed by
\* encoder.finish().
WorkerNextSkipsTar(step) ==
    IF step = "w_stat" THEN "w_ok"
    ELSE IF step = "w_walk" THEN "w_zstd"
    ELSE WorkerSteps[IndexOf(step) + 1]

\* minecraft.rs:36-104  the statement that follows a step of the closure
\* that succeeded; after the stat the closure returns Ok(size).
WorkerNext(step) ==
    IF step = "w_stat" THEN "w_ok" ELSE WorkerSteps[IndexOf(step) + 1]

\* The output file exists and the closure holds its handle.
HandleOpen == localFile[stage] = "writing"

\* A step of the closure failed: bail!.  Leaving the closure drops its
\* locals, which closes the output file when it was created.
WorkerBails(op) ==
    /\ IF HandleOpen
          THEN /\ Logged2(Ev(op, stage, FALSE, NoId), Ev("close", stage, TRUE, NoId))
               /\ localFile' = [localFile EXCEPT ![stage] = "partial"]
          ELSE /\ Logged(op, stage, FALSE, NoId)
               /\ localFile' = localFile
    /\ pc' = "w_err"

\* A step of the closure succeeded.
WorkerGoesOn(op) ==
    /\ Logged(op, stage, TRUE, NoId)
    /\ pc' = WorkerNext(pc)

\* minecraft.rs:36-42  File::create(&out)
WorkerCreate ==
    /\ pc = "w_create"
    /\ \/ WorkerGoesOn("create_file") /\ localFile' = [localFile EXCEPT ![stage] = "writing"]
       \/ WorkerBails("create_file")
    /\ UNCHANGED <<name, escaped_name, next_page_token,
                   before, cmd, keep, stage, folders, content, nextKey,
                   folder_id, all_files, page_token, idx, deleted_count,
                   prune_ret, result, exit>>

\* minecraft.rs:43-51  BufWriter::with_capacity, zstd::Encoder::new
WorkerEncoder ==
    /\ pc = "w_encoder"
    /\ \/ WorkerGoesOn("encoder") /\ localFile' = localFile
       \/ WorkerBails("encoder")
    /\ UNCHANGED <<name, escaped_name, next_page_token,
                   before, cmd, keep, stage, folders, content, nextKey,
                   folder_id, all_files, page_token, idx, deleted_count,
                   prune_ret, result, exit>>

\* minecraft.rs:53-56  encoder.multithread(0)
WorkerMultithread ==
    /\ pc = "w_multithread"
    /\ \/ WorkerGoesOn("multithread") /\ localFile' = localFile
       \/ WorkerBails("multithread")
    /\ UNCHANGED <<name, escaped_name, next_page_token,
                   before, cmd, keep, stage, folders, content, nextKey,
                   folder_id, all_files, page_token, idx, deleted_count,
                   prune_ret, result, exit>>

\* minecraft.rs:58-70  tar::Builder::new, append_dir_all
WorkerWalk ==
    /\ pc = "w_walk"
    /\ \/ WorkerGoesOn("walk") /\ localFile' = localFile
       \/ WorkerBails("walk")
    /\ UNCHANGED <<name, escaped_name, next_page_token,
                   before, cmd, keep, stage, folders, content, nextKey,
                   folder_id, all_files, page_token, idx, deleted_count,
                   prune_ret, result, exit>>

\* minecraft.rs:72-78  tar_builder.into_inner(): the archive is finished.
WorkerTarFinish ==
    /\ pc = "w_tar"
    /\ \/ WorkerGoesOn("tar_finish") /\ localFile' = localFile
       \/ WorkerBails("tar_finish")
    /\ UNCHANGED <<name, escaped_name, next_page_token,
                   before, cmd, keep, stage, folders, content, nextKey,
                   folder_id, all_files, page_token, idx, deleted_count,
                   prune_ret, result, exit>>

\* minecraft.rs:80-86  encoder.finish(): the compression is finished.
WorkerZstdFinish ==
    /\ pc = "w_zstd"
    /\ \/ WorkerGoesOn("zstd_finish") /\ localFile' = localFile
       \/ WorkerBails("zstd_finish")
    /\ UNCHANGED <<name, escaped_name, next_page_token,
                   before, cmd, keep, stage, folders, content, nextKey,
                   folder_id, all_files, page_token, idx, deleted_count,
                   prune_ret, result, exit>>

\* minecraft.rs:88-94  writer.into_inner(): the buffer is flushed and the
\* File is handed back, still open.
WorkerFlush ==
    /\ pc = "w_flush"
    /\ \/ WorkerGoesOn("flush") /\ localFile' = localFile
       \/ WorkerBails("flush")
    /\ UNCHANGED <<name, escaped_name, next_page_token,
                   before, cmd, keep, stage, folders, content, nextKey,
                   folder_id, all_files, page_token, idx, deleted_count,
                   prune_ret, result, exit>>

\* minecraft.rs:96-105  file.metadata() on the open handle; Ok(len) ends
\* the closure, which drops and so closes the file.
WorkerStat ==
    /\ pc = "w_stat"
    /\ \/ /\ Logged2(Ev("stat", stage, TRUE, NoId), Ev("close", stage, TRUE, NoId))
          /\ localFile' = [localFile EXCEPT ![stage] = "present"]
          /\ pc' = WorkerNext(pc)
       \/ WorkerBails("stat")
    /\ UNCHANGED <<name, escaped_name, next_page_token,
                   before, cmd, keep, stage, folders, content, nextKey,
                   folder_id, all_files, page_token, idx, deleted_count,
                   prune_ret, result, exit>>

\* The closure is running.
InWorker == \E i \in 1..Len(WorkerSteps) : pc = WorkerSteps[i]

\* minecraft.rs:35-106, 115  the closure panicked: the unwinding drops its
\* locals and the JoinHandle yields a JoinError.
WorkerPanic ==
    /\ InWorker
    /\ IF HandleOpen
          THEN /\ Logged2(Ev("panic", stage, FALSE, NoId), Ev("close", stage, TRUE, NoId))
               /\ localFile' = [localFile EXCEPT ![stage] = "partial"]
          ELSE /\ Logged("panic", stage, FALSE, NoId)
               /\ localFile' = localFile
    /\ pc' = "w_panic"
    /\ UNCHANGED <<name, escaped_name, next_page_token,
                   before, cmd, keep, stage, folders, content, nextKey,
                   folder_id, all_files, page_token, idx, deleted_count,
                   prune_ret, result, exit>>

\* minecraft.rs:110-119  what backup_minecraft returns for Ok(Err(e)) and
\* for Err(join_error).
ArchiveError(at) ==
    IF at = "w_panic" THEN "Minecraft backup blocking task panicked"
                      ELSE "Minecraft backup failed"

\* The JoinError arm without its cleanup_temp_file call.
ArchiveFailPanicNoCleanup ==
    /\ pc \in {"w_err", "w_panic"}
    /\ IF pc = "w_panic"
          THEN /\ localFile' = localFile
               /\ Logged("produce", stage, FALSE, WorkerFailed)
          ELSE \E removeOk \in BOOLEAN :
                /\ localFile' = [localFile EXCEPT ![stage] =
                                    CleanupTempFile(localFile[stage] # "absent", removeOk)]
                /\ Logged2(Ev("cleanup", stage, localFile[stage] = "absent" \/ removeOk, NoId),
                           Ev("produce", stage, FALSE, WorkerFailed))
    /\ ReturnErr(ArchiveError(pc))
    /\ UNCHANGED <<name, escaped_name, next_page_token,
                   before, cmd, keep, stage, folders, content, nextKey, folder_id,
                   all_files, page_token, idx, deleted_count, prune_ret, exit>>

\* minecraft.rs:108-120  the worker returned Err or panicked; the output
\* is cleaned up and an Err is returned.
ArchiveFail ==
    /\ pc \in {"w_err", "w_panic"}
    /\ \E removeOk \in BOOLEAN :
          /\ localFile' = [localFile EXCEPT ![stage] =
                              CleanupTempFile(localFile[stage] # "absent", removeOk)]
          /\ Logged2(Ev("cleanup", stage, localFile[stage] = "absent" \/ removeOk, NoId),
                     Ev("produce", stage, FALSE, WorkerFailed))
    /\ ReturnErr(ArchiveError(pc))
    /\ UNCHANGED <<name, escaped_name, next_page_token,
                   before, cmd, keep, stage, folders, content, nextKey, folder_id,
                   all_files, page_token, idx, deleted_count, prune_ret, exit>>

\* minecraft.rs:108-128  the worker returned Ok(size): Ok(output_path).
ArchiveOk ==
    /\ pc = "w_ok"
    /\ Logged("produce", stage, TRUE, NoId)
    /\ pc' = "upload"
    /\ UNCHANGED <<name, escaped_name, next_page_token,
                   before, cmd, keep, stage, folders, content, nextKey, localFile,
                   folder_id, all_files, page_token, idx, deleted_count, prune_ret,
                   result, exit>>

\* ----------------------------------------------------------- upload_file
InsertAt(s, p, e) == SubSeq(s, 1, p) \o <<e>> \o SubSeq(s, p + 1, Len(s))

\* An upload error that is logged and not returned.
UploadFailIgnored ==
    /\ pc = "upload"
    /\ Logged("upload", stage, FALSE, NoId)
    /\ pc' = AfterUpload
    /\ UNCHANGED <<name, escaped_name, next_page_token,
                   before, cmd, keep, stage, folders, content, nextKey, localFile,
                   folder_id, all_files, page_token, idx, deleted_count,
                   prune_ret, result, exit>>

\* upload.rs:103-190  the stat, the open or the transfer failed.
UploadFail ==
    /\ pc = "upload"
    /\ Logged("upload", stage, FALSE, NoId)
    /\ ReturnErr("Failed to upload")
    /\ UNCHANGED <<name, escaped_name, next_page_token,
                   before, cmd, keep, stage, folders, content, nextKey, localFile,
                   folder_id, all_files, page_token, idx, deleted_count,
                   prune_ret, exit>>

\* upload.rs:103-180  the transfer completed: Drive holds a new file in the
\* folder, at the place its creation time gives it.
UploadOk ==
    /\ pc = "upload"
    /\ \E t \in 1..MaxTime, p \in 0..Len(content[folder_id]) :
          /\ IsDesc(InsertAt(content[folder_id], p, Entry(nextKey, nextKey, t, FALSE, FALSE)))
          /\ content' = [content EXCEPT ![folder_id] =
                            InsertAt(@, p, Entry(nextKey, nextKey, t, FALSE, FALSE))]
    /\ Logged("upload", stage, TRUE, nextKey)
    /\ nextKey' = nextKey + 1
    /\ pc' = AfterUpload
    /\ UNCHANGED <<name, escaped_name, next_page_token,
                   before, cmd, keep, stage, folders, localFile, folder_id, all_files,
                   page_token, idx, deleted_count, prune_ret, result, exit>>

\* ---------------------------------------------- list_all_files_in_folder
\* prune.rs:31-33  the request carries page_token when there is one.
RequestOffset(token) == IF token = NoToken THEN 0 ELSE token

\* The page replaces what was accumulated.
ExtendOverwrites(all, files) == files

\* prune.rs:43-45  all_files.extend(files)
Extend(all, files) == all \o files

\* The loop ends after the first page.
HasNextPageNever(token) == FALSE

\* The match without its is_empty guard.
HasNextPageEvenIfEmpty(token) == token # NoToken

\* prune.rs:47-52  Some(token) if !token.is_empty() => go on, else break.
HasNextPage(token) == token # NoToken /\ token # EmptyToken

\* prune.rs:21-52  one page was received.  Drive answers with the next n
\* entries of the listing after the offset the token stands for, and with a
\* token when more entries follow.
ListPageOk ==
    /\ pc = "list"
    /\ LET L == ServerListing(folder_id)
           off == RequestOffset(page_token)
           rest == Len(L) - off
       IN \E n \in (IF rest = 0 THEN {0} ELSE 1..Min(PageSize, rest)) :
          \E tok \in (IF off + n < Len(L) THEN {off + n} ELSE {NoToken, EmptyToken}) :
             /\ before' = (IF page_token = NoToken THEN content[folder_id] ELSE before)
             /\ all_files' = Extend(all_files, SubSeq(L, off + 1, off + n))
             /\ next_page_token' = tok
             /\ Logged("list", stage, TRUE, n)
             /\ IF HasNextPage(tok)
                   THEN page_token' = tok /\ pc' = "list"
                   ELSE page_token' = page_token /\ pc' = "check"
    /\ UNCHANGED <<name, escaped_name,
                   cmd, keep, stage, folders, content, nextKey, localFile,
                   folder_id, idx, deleted_count, prune_ret, result, exit>>

\* prune.rs:21-52  one page was received from a server that answers every
\* page, an empty one included, with the cursor of the position it has
\* reached, whether or not entries follow.
ListPageCursor ==
    /\ pc = "list"
    /\ Cardinality({i \in 1..Len(log) : log[i].op = "list"}) < MaxPages
    /\ LET L == ServerListing(folder_id)
           off == RequestOffset(page_token)
           rest == Len(L) - off
       IN \E n \in 0..Min(PageSize, rest) :
          \E tok \in {off + n} :
             /\ before' = (IF page_token = NoToken THEN content[folder_id] ELSE before)
             /\ all_files' = Extend(all_files, SubSeq(L, off + 1, off + n))
             /\ next_page_token' = tok
             /\ Logged("list", stage, TRUE, n)
             /\ IF HasNextPage(tok)
                   THEN page_token' = tok /\ pc' = "list"
                   ELSE page_token' = page_token /\ pc' = "check"
    /\ UNCHANGED <<name, escaped_name,
                   cmd, keep, stage, folders, content, nextKey, localFile,
                   folder_id, idx, deleted_count, prune_ret, result, exit>>

\* A failed page request that ends the loop with the pages received so far.
ListPageFailBreaks ==
    /\ pc = "list"
    /\ before' = (IF page_token = NoToken THEN content[folder_id] ELSE before)
    /\ Logged("list", stage, FALSE, 0)
    /\ pc' = "check"
    /\ UNCHANGED <<name, escaped_name, next_page_token,
                   cmd, keep, stage, folders, content, nextKey, localFile,
                   folder_id, all_files, page_token, idx, deleted_count,
                   prune_ret, result, exit>>

\* prune.rs:35-41 and 65  a page request failed: bail!, and
\* prune_old_backups and run_* pass the error on with `?`.
ListPageFail ==
    /\ pc = "list"
    /\ before' = (IF page_token = NoToken THEN content[folder_id] ELSE before)
    /\ all_files' = <<>>
    /\ prune_ret' = PruneErr
    /\ Logged("list", stage, FALSE, 0)
    /\ ReturnErr("Failed to list files in folder")
    /\ UNCHANGED <<name, escaped_name, next_page_token,
                   cmd, keep, stage, folders, content, nextKey, localFile,
                   folder_id, page_token, idx, deleted_count, exit>>

\* ----------------------------------------------------- prune_old_backups
\* The comparison made strict.
NothingToPruneStrict(total, k) == total < k

\* prune.rs:68  total <= keep
NothingToPrune(total, k) == total <= k

\* A slice taken from the wrong end: the newest entries instead of the oldest.
ToDeleteNewest(files, k) == SubSeq(files, 1, Len(files) - k)

\* A slice that starts one entry too late.
ToDeleteOffByOne(files, k) == SubSeqFrom(files, k + 2)

\* The whole listing taken for deletion, whatever keep is.
ToDeleteAll(files, k) == files

\* prune.rs:78  &files[keep..]
ToDelete(files, k) == SubSeqFrom(files, k + 1)

\* Where run_* goes on once prune_old_backups returned Ok.
PruneReturns(n) ==
    /\ prune_ret' = n
    /\ IF cmd = "prune" THEN ReturnOk ELSE pc' = "remove" /\ result' = result

\* prune.rs:67-79  the listing is complete; nothing to prune, or start the
\* sweep over to_delete.
PruneCheck ==
    /\ pc = "check"
    /\ IF NothingToPrune(Len(all_files), keep)
          THEN /\ PruneReturns(0)
               /\ UNCHANGED <<idx, deleted_count>>
          ELSE /\ idx' = 1
               /\ deleted_count' = 0
               /\ pc' = "sweep"
               /\ UNCHANGED <<prune_ret, result>>
    /\ UNCHANGED <<name, escaped_name, next_page_token,
                   before, cmd, keep, stage, folders, content, nextKey, localFile,
                   folder_id, all_files, page_token, exit, log>>

\* prune.rs:81-88  the entry has no id: warn and continue.
PruneSkipNoId ==
    /\ pc = "sweep"
    /\ idx <= Len(ToDelete(all_files, keep))
    /\ ToDelete(all_files, keep)[idx].id = NoId
    /\ idx' = idx + 1
    /\ Logged("skip", stage, TRUE, NoId)
    /\ UNCHANGED <<name, escaped_name, next_page_token,
                   before, cmd, keep, pc, stage, folders, content, nextKey, localFile,
                   folder_id, all_files, page_token, deleted_count, prune_ret,
                   result, exit>>

\* prune.rs:100-103  the delete succeeded: the entry is gone from Drive.
PruneDeleteOk ==
    /\ pc = "sweep"
    /\ idx <= Len(ToDelete(all_files, keep))
    /\ ToDelete(all_files, keep)[idx].id # NoId
    /\ content' = [f \in DOMAIN content |->
                      RemoveId(content[f], ToDelete(all_files, keep)[idx].id)]
    /\ deleted_count' = deleted_count + 1
    /\ idx' = idx + 1
    /\ Logged("delete", stage, TRUE, ToDelete(all_files, keep)[idx].id)
    /\ UNCHANGED <<name, escaped_name, next_page_token,
                   before, cmd, keep, pc, stage, folders, nextKey, localFile,
                   folder_id, all_files, page_token, prune_ret, result, exit>>

\* A failed delete passed on with `?`: the sweep stops with an error.
PruneDeleteFailBails ==
    /\ pc = "sweep"
    /\ idx <= Len(ToDelete(all_files, keep))
    /\ ToDelete(all_files, keep)[idx].id # NoId
    /\ Logged("delete", stage, FALSE, ToDelete(all_files, keep)[idx].id)
    /\ prune_ret' = PruneErr
    /\ ReturnErr("Failed to delete file")
    /\ UNCHANGED <<name, escaped_name, next_page_token,
                   before, cmd, keep, stage, folders, content, nextKey, localFile,
                   folder_id, all_files, page_token, idx, deleted_count, exit>>

\* A failed delete counted like a successful one.
PruneDeleteFailCounts ==
    /\ pc = "sweep"
    /\ idx <= Len(ToDelete(all_files, keep))
    /\ ToDelete(all_files, keep)[idx].id # NoId
    /\ idx' = idx + 1
    /\ deleted_count' = deleted_count + 1
    /\ Logged("delete", stage, FALSE, ToDelete(all_files, keep)[idx].id)
    /\ UNCHANGED <<name, escaped_name, next_page_token,
                   before, cmd, keep, pc, stage, folders, content, nextKey, localFile,
                   folder_id, all_files, page_token, prune_ret, result, exit>>

\* prune.rs:104-111  the delete failed: log and go on with the next entry.
PruneDeleteFail ==
    /\ pc = "sweep"
    /\ idx <= Len(ToDelete(all_files, keep))
    /\ ToDelete(all_files, keep)[idx].id # NoId
    /\ idx' = idx + 1
    /\ Logged("delete", stage, FALSE, ToDelete(all_files, keep)[idx].id)
    /\ UNCHANGED <<name, escaped_name, next_page_token,
                   before, cmd, keep, pc, stage, folders, content, nextKey, localFile,
                   folder_id, all_files, page_token, deleted_count, prune_ret,
                   result, exit>>

\* prune.rs:115-123  the loop is over: Ok(deleted_count).
PruneDone ==
    /\ pc = "sweep"
    /\ idx > Len(ToDelete(all_files, keep))
    /\ PruneReturns(deleted_count)
    /\ UNCHANGED <<name, escaped_name, next_page_token,
                   before, cmd, keep, stage, folders, content, nextKey, localFile,
                   folder_id, all_files, page_token, idx, deleted_count,
                   exit, log>>

\* ---------------------------------------------------------- local cleanup
\* Where run_* goes on after the remove_file of the artifact: run_all goes
\* on with the directory kind, the others return Ok(()).
AfterRemove ==
    IF cmd = "all" /\ stage = "db"
       THEN pc' = "search" /\ stage' = "mc" /\ result' = result
       ELSE ReturnOk /\ stage' = stage

\* A failed removal passed on with `?`.
RemoveFileFailureIsError ==
    /\ pc = "remove"
    /\ \E ok \in BOOLEAN :
          /\ localFile' = [localFile EXCEPT ![stage] = IF ok THEN "absent" ELSE @]
          /\ Logged("remove", stage, ok, NoId)
          /\ IF ok THEN AfterRemove
                   ELSE ReturnErr("Failed to remove temp file") /\ stage' = stage
    /\ UNCHANGED <<name, escaped_name, next_page_token,
                   before, cmd, keep, folders, content, nextKey, folder_id, all_files,
                   page_token, idx, deleted_count, prune_ret, exit>>

\* main.rs:102-108, 129-135, 151-157, 173-179  tokio::fs::remove_file
RemoveFile ==
    /\ pc = "remove"
    /\ \E ok \in BOOLEAN :
          /\ localFile' = [localFile EXCEPT ![stage] = IF ok THEN "absent" ELSE @]
          /\ Logged("remove", stage, ok, NoId)
    /\ AfterRemove
    /\ UNCHANGED <<name, escaped_name, next_page_token,
                   before, cmd, keep, folders, content, nextKey, folder_id, all_files,
                   page_token, idx, deleted_count, prune_ret, exit>>

\* --------------------------------------------------------- initial states
\* The entries a folder can hold: files (listed with or without their id),
\* sub-folders and trashed files.
EntryChoices ==
    {Entry(0, hasId, t, m[1], m[2]) :
        hasId \in {0, 1}, t \in 1..MaxTime,
        m \in {<<FALSE, FALSE>>, <<TRUE, FALSE>>, <<FALSE, TRUE>>}}

\* The folder contents of at most n entries, with keys base+1.., as Drive
\* orders them by createdTime desc.
Contents(n, base) ==
    UNION {
      { [i \in 1..len |-> [c[i] EXCEPT !.key = base + i,
                                      !.id = IF c[i].id = 0 THEN NoId ELSE base + i]] :
          c \in {d \in [1..len -> EntryChoices] :
                   /\ IsDesc(d)
                   /\ \A i \in 1..len : d[i].id = 0 => MatchesListQuery(d[i])} }
      : len \in 0..n }

\* Folder ids of the initial state: nd folders named DB_Backups, then nm
\* folders named Minecraft_Backups.
InitFolders(nd, nm) ==
    [st \in Stages |-> IF st = "db" THEN [i \in 1..nd |-> i]
                                    ELSE [i \in 1..nm |-> nd + i]]

\* The first directory-backup folder holds c, every other folder is empty.
InitContent(nd, nm, c) ==
    [f \in 1..(nd + nm) |-> IF f = nd + 1 THEN c ELSE <<>>]

InitLocals ==
    /\ localFile = [st \in Stages |-> "absent"]
    /\ all_files = <<>>
    /\ page_token = NoToken
    /\ idx = 0
    /\ deleted_count = 0
    /\ prune_ret = NotReturned
    /\ result = "none"
    /\ exit = "none"
    /\ before = <<>>
    /\ next_page_token = NoToken
    /\ name = <<>>
    /\ escaped_name = <<>>

\* A process started with any command, any retention count and any state
\* of the Drive folders.
Init ==
    /\ cmd \in Commands
    /\ keep \in 0..MaxKeep
    /\ pc = "config"
    /\ stage = (IF cmd \in {"db", "all"} THEN "db" ELSE "mc")
    /\ \E nd \in 0..MaxDup, nm \in 0..MaxDup :
          /\ folders = InitFolders(nd, nm)
          /\ \E c \in Contents(RunFiles, nd + nm) :
                /\ (nm = 0 => c = <<>>)
                /\ content = InitContent(nd, nm, c)
                /\ nextKey = nd + nm + Len(c) + 1
    /\ folder_id = NoId
    /\ InitLocals
    /\ log = <<>>

Next ==
    \/ ConfigFromEnv \/ CreateTempDir \/ BuildHub \/ MainExit
    \/ FolderSearchFail \/ FolderSearchFound \/ FolderSearchMiss
    \/ FolderCreateOk \/ FolderCreateFail \/ FolderCreateNoId
    \/ DumpSpawnFail \/ DumpExitNonZero \/ DumpCleanup \/ DumpExitZero
    \/ DumpStatFail \/ DumpOk
    \/ ArchiveNoSource \/ ArchiveSpawn
    \/ WorkerCreate \/ WorkerEncoder \/ WorkerMultithread \/ WorkerWalk
    \/ WorkerTarFinish \/ WorkerZstdFinish \/ WorkerFlush \/ WorkerStat
    \/ WorkerPanic \/ ArchiveFail \/ ArchiveOk
    \/ UploadFail \/ UploadOk
    \/ ListPageOk \/ ListPageFail
    \/ PruneCheck \/ PruneSkipNoId \/ PruneDeleteOk \/ PruneDeleteFail \/ PruneDone
    \/ RemoveFile

Spec == Init /\ [][Next]_vars

\* prune_old_backups called by run_prune on a resolved folder with any
\* content.
InitPrune ==
    /\ cmd = "prune"
    /\ keep \in 0..MaxKeep
    /\ pc = "list"
    /\ stage = "mc"
    /\ folders = InitFolders(0, 1)
    /\ \E c \in Contents(MaxFiles, 1) :
          /\ content = InitContent(0, 1, c)
          /\ nextKey = Len(c) + 2
    /\ folder_id = 1
    /\ InitLocals
    /\ log = <<Ev("auth", "mc", TRUE, NoId), Ev("search", "mc", TRUE, 1)>>

NextPrune ==
    \/ ListPageOk \/ ListPageFail
    \/ PruneCheck \/ PruneSkipNoId \/ PruneDeleteOk \/ PruneDeleteFail \/ PruneDone

SpecPrune == InitPrune /\ [][NextPrune]_vars

\* list_all_files_in_folder alone, against a server that may or may not
\* end its cursors; every request is awaited, so the loop goes on whenever
\* an answer is due.  The folder holds files only, each listed with its id.
InitList ==
    /\ InitPrune
    /\ keep = 0
    /\ content[folder_id] = ServerListing(folder_id)
    /\ \A i \in 1..Len(content[folder_id]) : content[folder_id][i].id # NoId

NextList == ListPageOk \/ ListPageFail \/ ListPageCursor

SpecList == InitList /\ [][NextList]_vars /\ WF_vars(NextList)

\* find_or_create_folder reached by any command for either folder name.
InitFolder ==
    /\ cmd \in Commands
    /\ keep \in 0..MaxKeep
    /\ pc = "search"
    /\ stage = (IF cmd \in {"db", "all"} THEN "db" ELSE "mc")
    /\ \E nd \in 0..MaxDup, nm \in 0..MaxDup :
          /\ folders = InitFolders(nd, nm)
          /\ \E c \in Contents(RunFiles, nd + nm) :
                /\ (nm = 0 => c = <<>>)
                /\ content = InitContent(nd, nm, c)
                /\ nextKey = nd + nm + Len(c) + 1
    /\ folder_id = NoId
    /\ InitLocals
    /\ log = <<Ev("auth", stage, TRUE, NoId)>>

\* The folder was resolved.
FolderResolved == pc \in {"list", "dump", "archive"}

\* find_or_create_folder is called a second time with the same name and
\* parent, as the next invocation of the command does; the id the first
\* call returned is kept in the history.
CallAgain ==
    /\ FolderResolved
    /\ \A i \in 1..Len(log) : log[i].op # "resolved"
    /\ Logged("resolved", stage, TRUE, folder_id)
    /\ pc' = "search"
    /\ UNCHANGED <<name, escaped_name, next_page_token,
                   before, cmd, keep, stage, folders, content, nextKey, localFile,
                   folder_id, all_files, page_token, idx, deleted_count,
                   prune_ret, result, exit>>

NextFolder ==
    \/ FolderSearchFail \/ FolderSearchFound \/ FolderSearchMiss
    \/ FolderCreateOk \/ FolderCreateFail \/ FolderCreateNoId
    \/ CallAgain

SpecFolder == InitFolder /\ [][NextFolder]_vars

\* find_or_create_folder called with any name, up to the point where its
\* query is built.
InitQuery ==
    /\ cmd \in Commands
    /\ keep = 0
    /\ pc = "query"
    /\ stage = (IF cmd \in {"db", "all"} THEN "db" ELSE "mc")
    /\ folders = InitFolders(0, 0)
    /\ content = InitContent(0, 0, <<>>)
    /\ nextKey = 1
    /\ folder_id = NoId
    /\ localFile = [st \in Stages |-> "absent"]
    /\ all_files = <<>>
    /\ page_token = NoToken
    /\ idx = 0
    /\ deleted_count = 0
    /\ prune_ret = NotReturned
    /\ result = "none"
    /\ exit = "none"
    /\ before = <<>>
    /\ next_page_token = NoToken
    /\ name \in Names
    /\ escaped_name = <<>>
    /\ log = <<Ev("auth", stage, TRUE, NoId)>>

NextQuery == BuildQuery

SpecQuery == InitQuery /\ [][NextQuery]_vars

\* ================================================================ claims
\* ------------------------------------------------- reading the history
Events(op) == {i \in 1..Len(log) : log[i].op = op}
OkEvents(op, st) == {i \in 1..Len(log) : log[i].op = op /\ log[i].stage = st /\ log[i].ok}
FailedEvents(op, st) == {i \in 1..Len(log) : log[i].op = op /\ log[i].stage = st /\ ~log[i].ok}

\* The delete requests issued, and those issued for one entry.
DeleteEvents == Events("delete")
DeletesOf(k) == {i \in DeleteEvents : log[i].val = k}
DeleteTargets == {log[i].val : i \in DeleteEvents}

\* The listing of the folder as it was when prune_old_backups started, and
\* the set of its entries.
BeforeListing == SelectSeq(before, MatchesListQuery)
BeforeEntries == {BeforeListing[i] : i \in 1..Len(BeforeListing)}
NowEntries == {ServerListing(folder_id)[i] : i \in 1..Len(ServerListing(folder_id))}
Keys(S) == {e.key : e \in S}

Max0(n) == IF n > 0 THEN n ELSE 0

\* prune_old_backups was called and its listing did not fail.
PruneListed == pc \in {"check", "sweep"} \/ prune_ret >= 0
\* prune_old_backups returned Ok(n).
PruneReturnedOk == prune_ret >= 0

DistinctTimes ==
    \A e \in BeforeEntries, d \in BeforeEntries :
        e.key # d.key => e.createdTime # d.createdTime

\* The entries that have fewer than k strictly newer entries.
NewestK(k) ==
    {e \in BeforeEntries :
        Cardinality({d \in BeforeEntries : d.createdTime > e.createdTime}) < k}

\* C1: in every run, once a producer has returned an artifact path, the
\* local artifact no longer exists when the run returns, unless the
\* removal itself failed.
C1_ArtifactGoneWhenRunReturns ==
    pc = "ret" =>
        \A st \in Stages :
            (OkEvents("produce", st) # {} /\ FailedEvents("remove", st) = {})
                => localFile[st] = "absent"

\* The database kind of run_all failed at folder resolution, dump or upload.
DbKindFailed ==
    /\ cmd = "all"
    /\ IsErr(result)
    /\ stage = "db"
    /\ Len(log) > 0
    /\ log[Len(log)].op \in {"search", "create", "produce", "upload"}

\* C2: in run_all, a failure of the database kind does not prevent the
\* directory kind from being attempted: when the run returns after such
\* a failure, the directory archiver has been run.
C2_DirectoryKindAttemptedAfterDbFailure ==
    (pc = "ret" /\ DbKindFailed) =>
        \E i \in 1..Len(log) : log[i].op = "produce" /\ log[i].stage = "mc"

\* C3: in every state of a prune, at least keep entries were not targeted
\* by a delete and are at least as recent as every targeted one, and the
\* number of delete requests is at most max(0, total - keep).
C3_NewestKeptAndDeletesBounded ==
    /\ DeleteTargets # {} =>
          Cardinality({e \in BeforeEntries :
                          /\ e.key \notin DeleteTargets
                          /\ \A d \in BeforeEntries :
                                d.key \in DeleteTargets => e.createdTime >= d.createdTime})
             >= keep
    /\ DeleteTargets \subseteq Keys(BeforeEntries)
    /\ Cardinality(DeleteEvents) <= Max0(Len(BeforeListing) - keep)

\* C3 witness: a sweep over several targets in which one delete failed and
\* one entry without an id was skipped has ended.
C3_Witness ==
    /\ PruneReturnedOk
    /\ keep > 0
    /\ Cardinality(DeleteEvents) >= 1
    /\ FailedEvents("delete", "mc") # {}
    /\ Events("skip") # {}

\* C4 as stated: with distinct creation times, exactly max(0, N - K)
\* deletes are attempted and, when none fails, exactly the K newest remain.
C4_ExactlyNMinusKAttempts ==
    (PruneReturnedOk /\ DistinctTimes) =>
        /\ Cardinality(DeleteEvents) = Max0(Len(BeforeListing) - keep)
        /\ FailedEvents("delete", "mc") = {} => Keys(NowEntries) = Keys(NewestK(keep))

\* The entries beyond the keep newest that are listed with an id.
TargetsWithId == {e \in BeforeEntries \ NewestK(keep) : e.id # NoId}

\* C4 amended: with distinct creation times, one delete is attempted for
\* each entry beyond the K newest that is listed with an id (max(0, N - K)
\* of them when all are), and when no delete fails and no entry is skipped
\* exactly the K newest remain.
C4_AttemptsForTargetsWithId ==
    (PruneReturnedOk /\ DistinctTimes) =>
        /\ Cardinality(DeleteEvents) = Cardinality(TargetsWithId)
        /\ DeleteTargets = Keys(TargetsWithId)
        /\ (\A e \in BeforeEntries : e.id # NoId)
              => Cardinality(DeleteEvents) = Max0(Len(BeforeListing) - keep)
        /\ (FailedEvents("delete", "mc") = {} /\ Events("skip") = {})
              => Keys(NowEntries) = Keys(NewestK(keep))

\* C4 witness: three files with distinct times, keep 1, both deletes done.
C4_Witness ==
    /\ PruneReturnedOk
    /\ DistinctTimes
    /\ Len(BeforeListing) = 3
    /\ keep = 1
    /\ prune_ret = 2
    /\ Cardinality(NowEntries) = 1

\* C5: when the listing has at most keep entries, prune_old_backups issues
\* no delete, leaves the folder as it was and returns 0 without a sweep.
C5_NothingToPruneIsNoOp ==
    (PruneListed /\ Len(BeforeListing) <= keep) =>
        /\ DeleteEvents = {}
        /\ content[folder_id] = before
        /\ pc = "check" \/ prune_ret = 0

\* C5 witness: a non-empty folder with exactly keep files was pruned.
C5_Witness ==
    /\ prune_ret = 0
    /\ keep > 0
    /\ Len(BeforeListing) = keep
    /\ Len(before) > keep

\* C6: a failed delete or a skipped entry neither ends the sweep nor turns
\* the result into an error, and when the sweep is over every entry beyond
\* the keep first that has an id has had exactly one delete request.
C6_SweepIsBestEffort ==
    /\ (FailedEvents("delete", "mc") # {} \/ Events("skip") # {})
          => (pc = "sweep" \/ PruneReturnedOk)
    /\ PruneReturnedOk =>
          \A j \in (keep + 1)..Len(BeforeListing) :
              BeforeListing[j].id # NoId
                 => Cardinality(DeletesOf(BeforeListing[j].key)) = 1

\* C6 witness: a delete was issued after a failed delete and after a skip.
C6_Witness ==
    /\ PruneReturnedOk
    /\ \E i \in FailedEvents("delete", "mc") : \E j \in DeleteEvents : j > i
    /\ \E i \in Events("skip") : \E j \in DeleteEvents : j > i

\* C7: the count prune_old_backups returns is the number of delete
\* requests that succeeded, which is the number of entries gone from Drive.
C7_CountIsSuccessfulDeletes ==
    PruneReturnedOk =>
        /\ prune_ret = Cardinality(OkEvents("delete", "mc"))
        /\ prune_ret = Cardinality(Keys(BeforeEntries) \ Keys(NowEntries))

\* C7 witness: a sweep with a successful delete, a failed one and a skip.
C7_Witness ==
    /\ PruneReturnedOk
    /\ prune_ret = 1
    /\ FailedEvents("delete", "mc") # {}
    /\ Events("skip") # {}

\* C8: what list_all_files_in_folder returns is every non-trashed
\* non-folder entry of the folder exactly once, in descending creation-time
\* order, as many entries as the pages carried.
C8_ListingCompleteAndOrdered ==
    pc = "check" =>
        /\ all_files = ServerListing(folder_id)
        /\ Keys({all_files[i] : i \in 1..Len(all_files)}) =
              {e.key : e \in {content[folder_id][i] : i \in 1..Len(content[folder_id])}
                         \ {d \in {content[folder_id][i] : i \in 1..Len(content[folder_id])} :
                               d.trashed \/ d.mimeFolder}}
        /\ \A i \in 1..Len(all_files), j \in 1..Len(all_files) :
              i # j => all_files[i].key # all_files[j].key
        /\ IsDesc(all_files)

\* C8 witness: a listing of several pages of a folder that also holds an
\* entry the query excludes.
C8_Witness ==
    /\ pc = "check"
    /\ Cardinality(OkEvents("list", "mc")) >= 2
    /\ Len(all_files) >= 2
    /\ Len(content[folder_id]) > Len(all_files)

\* C9: when a page request failed, prune_old_backups returned an error,
\* never went on to its check or sweep, issued no delete and left the
\* folder as it was.
C9_ListFailureStopsPrune ==
    FailedEvents("list", "mc") # {} =>
        /\ prune_ret = PruneErr
        /\ IsErr(result)
        /\ pc \notin {"check", "sweep"}
        /\ DeleteEvents = {}
        /\ content[folder_id] = before

\* C9 witness: a later page failed after a first page was received, in a
\* folder with more files than keep.
C9_Witness ==
    /\ FailedEvents("list", "mc") # {}
    /\ OkEvents("list", "mc") # {}
    /\ Len(BeforeListing) > keep

\* C10: a folder-create request is only issued after a search that
\* returned no match.
C10_NoCreateWhenSearchMatched ==
    \A i \in 2..Len(log) :
        (log[i].op = "create" /\ log[i - 1].op = "search") => log[i - 1].val = 0

\* C11: two consecutive successful calls of find_or_create_folder return
\* the same id, and at most one folder is created across both.
C11_SecondCallSameFolder ==
    FolderResolved =>
        \A i \in 1..Len(log) :
            log[i].op = "resolved" =>
                /\ folder_id = log[i].val
                /\ Cardinality(OkEvents("create", stage)) <= 1

\* The last call made.
Last == log[Len(log)]

\* C12: a search without a match is followed by exactly one create
\* request, whose id is returned; a failed search, a failed create and a
\* create response without an id each end the run with an error, the last
\* with a message of its own; nothing follows a failed search.
C12_CreateOnlyOnEmptySearch ==
    /\ \A i \in 1..Len(log) :
          (log[i].op = "search" /\ log[i].ok /\ log[i].val = 0) =>
              /\ i = Len(log) => pc = "create"
              /\ i < Len(log) => log[i + 1].op = "create"
              /\ Cardinality(Events("create") \cap {j \in 1..Len(log) : log[j].stage = log[i].stage}) <= 1
    /\ \A i \in 1..Len(log) :
          (log[i].op = "search" /\ ~log[i].ok) => i = Len(log)
    /\ Len(log) > 0 =>
          /\ (Last.op = "create" /\ Last.ok /\ Last.val # NoId) =>
                /\ FolderResolved \/ pc = "w_create"
                /\ result = "none"
                /\ folder_id = Last.val
                /\ folders[stage][Len(folders[stage])] = Last.val
          /\ (Last.op = "search" /\ ~Last.ok) =>
                pc \in {"ret", "done"} /\ result = "Failed to search for folder"
          /\ (Last.op = "create" /\ ~Last.ok) =>
                pc \in {"ret", "done"} /\ result = "Failed to create folder"
          /\ (Last.op = "create" /\ Last.ok /\ Last.val = NoId) =>
                pc \in {"ret", "done"} /\ result = "Drive created folder but returned no ID"

\* C12 witness: no folder of the name existed, one was created and its id
\* returned.
C12_Witness ==
    /\ FolderResolved
    /\ Len(log) > 1
    /\ Last.op = "create" /\ Last.val = folder_id
    /\ log[Len(log) - 1].op = "search" /\ log[Len(log) - 1].val = 0

\* ------------------------------------------------------------- backup_db
\* C13 as stated: after a non-zero exit of the dump tool an error is
\* returned and the destination file is absent.
C13_NonZeroExitLeavesNoFile ==
    (Len(log) > 0 /\ Last = Ev("produce", "db", FALSE, ExitNonZero)) =>
        IsErr(result) /\ localFile["db"] = "absent"

\* C13 amended: backup_db runs the dump tool at most once; after a
\* non-zero exit it returns an error and the destination file is absent
\* unless it had been written and its removal failed; a zero exit with a
\* missing or unstatable file and a failed spawn return an error; only a
\* zero exit with an existing, stat-able file returns the path.
C13_DumpOutcomes ==
    /\ Cardinality(Events("pg_dump")
                   \cup {i \in 1..Len(log) : log[i] = Ev("produce", "db", FALSE, SpawnFailed)}) <= 1
    /\ Len(log) > 0 =>
          /\ (Last.op = "produce" /\ Last.stage = "db" /\ ~Last.ok) =>
                IsErr(result) /\ pc \in {"ret", "done"}
          /\ Last = Ev("produce", "db", FALSE, ExitNonZero) =>
                /\ Len(log) > 2
                /\ log[Len(log) - 1].op = "cleanup"
                /\ log[Len(log) - 2].op = "pg_dump" /\ ~log[Len(log) - 2].ok
                /\ log[Len(log) - 1].ok => localFile["db"] = "absent"
    /\ \A i \in 1..Len(log) :
          /\ (log[i] = Ev("pg_dump", "db", TRUE, 0) /\ i < Len(log))
                => log[i + 1] = Ev("produce", "db", FALSE, StatFailed)
          /\ log[i] = Ev("produce", "db", TRUE, NoId)
                => i > 1 /\ log[i - 1] = Ev("pg_dump", "db", TRUE, 1)
    /\ (pc = "upload" /\ stage = "db") => localFile["db"] = "present"

\* C13 witness: the dump tool wrote its output, exited non-zero, and the
\* output was removed.
C13_Witness ==
    /\ Len(log) > 2
    /\ Last = Ev("produce", "db", FALSE, ExitNonZero)
    /\ log[Len(log) - 2] = Ev("pg_dump", "db", FALSE, 1)
    /\ localFile["db"] = "absent"
    /\ pc = "done"

\* ------------------------------------------------------ backup_minecraft
WorkerOps == {"create_file", "encoder", "multithread", "walk", "tar_finish",
              "zstd_finish", "flush", "stat"}

\* C14 as stated: when the worker failed or panicked, backup_minecraft
\* returns an error and the output file does not exist afterwards.
C14_FailedArchiveLeavesNoFile ==
    (Len(log) > 0 /\ Last = Ev("produce", "mc", FALSE, WorkerFailed)) =>
        /\ IsErr(result)
        /\ pc \in {"ret", "done"}
        /\ localFile["mc"] = "absent"

\* C14 amended: when the worker failed at any step or panicked, the
\* process goes on, the output file is closed, its removal is attempted and
\* an error is returned; the file does not exist afterwards unless that
\* removal failed.
C14_FailedArchiveCleanedUp ==
    /\ pc \in {"w_err", "w_panic"} => localFile["mc"] \in {"absent", "partial"}
    /\ \A i \in 1..Len(log) :
          ((log[i].op \in WorkerOps \/ log[i].op = "panic") /\ ~log[i].ok) =>
              \/ pc \in {"w_err", "w_panic"}
              \/ /\ \E j \in (i + 1)..Len(log) : log[j].op = "cleanup"
                 /\ Last = Ev("produce", "mc", FALSE, WorkerFailed)
                 /\ log[Len(log) - 1].ok => localFile["mc"] = "absent"
                 /\ IsErr(result)
                 /\ pc \in {"ret", "done"}
                 /\ pc = "done" => exit = "FAILURE"

\* C14 witness: the worker panicked after the walk had written to the
\* file; the file is gone and the process ended with a failure status.
C14_Witness ==
    /\ pc = "done"
    /\ exit = "FAILURE"
    /\ Events("panic") # {}
    /\ OkEvents("walk", "mc") # {}
    /\ localFile["mc"] = "absent"

\* C15: an upload starts only when the producer of the same kind has
\* returned Ok just before, with the artifact complete and its write handle
\* closed; the file is open for writing only while the worker runs.
C15_UploadAfterProducerClosed ==
    /\ pc = "upload" =>
          /\ localFile[stage] = "present"
          /\ Last = Ev("produce", stage, TRUE, NoId)
    /\ \A i \in 1..Len(log) :
          /\ log[i].op = "upload" =>
                i > 1 /\ log[i - 1] = Ev("produce", log[i].stage, TRUE, NoId)
          /\ log[i] = Ev("produce", "mc", TRUE, NoId) =>
                i > 1 /\ log[i - 1].op = "close"
    /\ \A st \in Stages : localFile[st] = "writing" => (InWorker /\ stage = st)

\* C15 witness: the directory artifact was uploaded.
C15_Witness ==
    /\ Len(log) > 0
    /\ Last.op = "upload" /\ Last.ok /\ Last.stage = "mc"

\* The listing and delete requests of the pruner.
PruneEvents == Events("list") \cup Events("delete")

\* C16: in run_minecraft_backup and run_all the folder is listed or
\* deleted from only after the directory artifact was uploaded; when its
\* producer or its upload failed there is no listing and no delete.
C16_PruneOnlyAfterUpload ==
    cmd \in {"minecraft", "all"} =>
        /\ \A i \in PruneEvents : \E j \in OkEvents("upload", "mc") : j < i
        /\ (FailedEvents("produce", "mc") # {} \/ FailedEvents("upload", "mc") # {})
              => PruneEvents = {}

\* C16 witness: run_all ended on a failed directory upload into a folder
\* that holds more files than keep.
C16_Witness ==
    /\ cmd = "all"
    /\ pc = "done"
    /\ Len(log) > 0
    /\ Last = Ev("upload", "mc", FALSE, NoId)
    /\ folder_id # NoId
    /\ Len(ServerListing(folder_id)) > keep

\* C17: a failed removal of the local artifact does not change the
\* outcome: run_all goes on with the directory kind after the database
\* artifact, and otherwise the run returns Ok and the process exits with
\* success.
C17_RemoveFailureKeepsSuccess ==
    (Len(log) > 0 /\ Last.op = "remove" /\ ~Last.ok) =>
        IF cmd = "all" /\ Last.stage = "db"
           THEN pc = "search" /\ stage = "mc" /\ result = "none"
           ELSE /\ pc \in {"ret", "done"}
                /\ result = "ok"
                /\ pc = "done" => exit = "SUCCESS"

\* C17 witness: upload and pruning succeeded, the removal failed, and the
\* process exited with success.
C17_Witness ==
    /\ pc = "done"
    /\ exit = "SUCCESS"
    /\ prune_ret >= 0
    /\ Last = Ev("remove", "mc", FALSE, NoId)
    /\ localFile["mc"] = "present"

\* The calls whose error the run functions pass on with `?`.
PropagatedErrors ==
    {i \in 1..Len(log) :
        \/ /\ ~log[i].ok
           /\ log[i].op \in {"auth", "search", "create", "produce", "upload", "list"}
        \/ log[i] = Ev("create", log[i].stage, TRUE, NoId)}

\* C18: the exit status is SUCCESS exactly when configuration and temp
\* directory were set up and the command returned Ok, which is when no
\* stage passed an error on; failed deletes of the pruner do not count.
C18_ExitStatus ==
    pc = "done" =>
        /\ exit \in {"SUCCESS", "FAILURE"}
        /\ exit = "SUCCESS" <=> result = "ok"
        /\ result = "ok" <=> (Len(log) > 0 /\ PropagatedErrors = {})
        /\ result = "none" <=> Len(log) = 0

\* C18 witness: a run in which a delete of the pruner failed exited with
\* success.
C18_Witness ==
    /\ pc = "done"
    /\ exit = "SUCCESS"
    /\ FailedEvents("delete", "mc") # {}

\* C19 as stated: tar finish, zstd finish, flush and release of the file
\* handle, then the stat.
C19_StatAfterHandleReleased ==
    \A i \in 1..Len(log) :
        (log[i].op = "stat" /\ log[i].ok) =>
            /\ i > 4
            /\ log[i - 1].op = "close"
            /\ log[i - 2].op = "flush"
            /\ log[i - 3].op = "zstd_finish"
            /\ log[i - 4].op = "tar_finish"

\* C19 amended: on the success path the worker finishes the tar layer,
\* finishes the zstd layer, flushes the buffered writer, stats the file
\* through the handle that is still open, and only then releases the
\* handle; none is skipped and the stat never precedes the flush.
C19_FinalizationOrder ==
    \A i \in 1..Len(log) :
        /\ log[i] = Ev("produce", "mc", TRUE, NoId) =>
              /\ i > 6
              /\ log[i - 1] = Ev("close", "mc", TRUE, NoId)
              /\ log[i - 2] = Ev("stat", "mc", TRUE, NoId)
              /\ log[i - 3] = Ev("flush", "mc", TRUE, NoId)
              /\ log[i - 4] = Ev("zstd_finish", "mc", TRUE, NoId)
              /\ log[i - 5] = Ev("tar_finish", "mc", TRUE, NoId)
              /\ log[i - 6] = Ev("walk", "mc", TRUE, NoId)
        /\ log[i].op = "stat" =>
              i > 1 /\ log[i - 1] = Ev("flush", "mc", TRUE, NoId)

\* C19 witness: backup_minecraft returned its path.
C19_Witness ==
    /\ pc = "upload"
    /\ stage = "mc"
    /\ Last = Ev("produce", "mc", TRUE, NoId)

\* The number of entries the listing pages received so far carried.
RECURSIVE PagesUpTo(_)
PagesUpTo(i) ==
    IF i = 0 THEN 0
    ELSE PagesUpTo(i - 1) + (IF log[i].op = "list" /\ log[i].ok THEN log[i].val ELSE 0)

\* C20: in a pipeline that uploads, every call is made after the one
\* before it returned, in the order upload, listing pages, deletes: no
\* list request precedes the completed upload and no delete precedes the
\* last page of the listing.
C20_RemoteCallsInOrder ==
    cmd \in {"minecraft", "all"} =>
        /\ \A i \in Events("list") : \E j \in OkEvents("upload", "mc") : j < i
        /\ \A i \in Events("list"), j \in Events("delete") : i < j
        /\ \A j \in Events("delete") :
              /\ FailedEvents("list", "mc") = {}
              /\ PagesUpTo(j) = Len(BeforeListing)
              /\ \E i \in OkEvents("upload", "mc") : i < j

\* C20 witness: an upload, then a listing of two pages, then two deletes.
C20_Witness ==
    /\ cmd \in {"minecraft", "all"}
    /\ OkEvents("upload", "mc") # {}
    /\ Cardinality(Events("list")) >= 2
    /\ Cardinality(Events("delete")) >= 2

\* ------------------------------------------------- the sequence of a run
\* The calls a kind's run makes once its destination folder is resolved.
AfterResolutionOps ==
    WorkerOps \cup {"pg_dump", "produce", "panic", "cleanup", "close",
                    "upload", "list", "skip", "delete", "remove"}

\* find_or_create_folder returned Ok for the stage: a search whose first
\* match was taken, or a create that answered with an id.
Resolved(st) ==
    {j \in 1..Len(log) :
        /\ log[j].stage = st
        /\ log[j].ok
        /\ \/ log[j].op = "create" /\ log[j].val # NoId
           \/ log[j].op = "search" /\ (j = Len(log) \/ log[j + 1].op # "create")}

\* Authentication or folder resolution failed.
SetupFailedAt(i) ==
    \/ log[i].op \in {"auth", "search", "create"} /\ ~log[i].ok
    \/ log[i].op = "create" /\ log[i].ok /\ log[i].val = NoId

\* C21: nothing is produced and nothing is written remotely unless the
\* earlier steps succeeded: a configuration or temp-directory error ends
\* the process before any call; an authentication or folder-resolution
\* failure is the last call of the run and leaves no local artifact of the
\* kind; a folder is created only after authentication and an answered
\* search; producers, uploads, listings and deletes of a kind come after
\* its folder was resolved, and an upload after its producer returned Ok.
C21_StepsInSequence ==
    /\ (pc = "done" /\ result = "none") =>
          /\ log = <<>>
          /\ exit = "FAILURE"
          /\ \A st \in Stages : localFile[st] = "absent"
    /\ pc \in {"config", "tempdir", "auth"} => log = <<>>
    /\ \A i \in 1..Len(log) :
          /\ log[i].op = "auth" => i = 1
          /\ i > 1 => log[1] = Ev("auth", log[1].stage, TRUE, NoId)
          /\ log[i].op = "create" =>
                /\ i > 1
                /\ log[i - 1].op = "search" /\ log[i - 1].ok
                /\ log[i - 1].stage = log[i].stage
          /\ log[i].op \in AfterResolutionOps =>
                \E j \in Resolved(log[i].stage) : j < i
          /\ log[i].op = "upload" =>
                \E j \in OkEvents("produce", log[i].stage) : j < i
          /\ SetupFailedAt(i) =>
                /\ i = Len(log)
                /\ pc \in {"ret", "done"}
                /\ IsErr(result)
                /\ localFile[log[i].stage] = "absent"

\* C21 witness: run_all uploaded the database artifact and then failed to
\* resolve the directory-backup folder; no archive was started.
C21_Witness ==
    /\ cmd = "all"
    /\ pc = "done"
    /\ Len(log) > 0
    /\ Last.stage = "mc" /\ SetupFailedAt(Len(log))
    /\ OkEvents("upload", "db") # {}
    /\ localFile["mc"] = "absent"

\* ------------------------------------------------------ the escaped name
\* A character of the name as the query has to carry it.
EscapeChar(c) == IF c \in {Quote, Backslash} THEN <<Backslash, c>> ELSE <<c>>

RECURSIVE EachEscaped(_)
EachEscaped(n) == IF n = <<>> THEN <<>> ELSE EscapeChar(Head(n)) \o EachEscaped(Tail(n))

\* Reading a quoted literal: a backslash takes the next character as it is.
RECURSIVE Unescape(_)
Unescape(s) ==
    IF s = <<>> THEN <<>>
    ELSE IF Head(s) = Backslash /\ Len(s) > 1
            THEN <<s[2]>> \o Unescape(SubSeqFrom(s, 3))
            ELSE <<Head(s)>> \o Unescape(Tail(s))

\* The literal '<s>' ends before its closing quote: s holds a quote that no
\* backslash escapes, or ends in a backslash that escapes the closing quote.
RECURSIVE TerminatesEarly(_)
TerminatesEarly(s) ==
    IF s = <<>> THEN FALSE
    ELSE IF Head(s) = Backslash
            THEN Len(s) = 1 \/ TerminatesEarly(SubSeqFrom(s, 3))
            ELSE Head(s) = Quote \/ TerminatesEarly(Tail(s))

\* C22: for every name over the alphabet, the escaped name carries every
\* quote and every backslash of the name behind an escaping backslash and
\* every other character as it is, the quoted literal does not end early,
\* and un-escaping gives back the name.
C22_EscapedNameIsSafe ==
    (Len(log) > 0 /\ Last.op = "query") =>
        /\ escaped_name = EachEscaped(name)
        /\ ~TerminatesEarly(escaped_name)
        /\ Unescape(escaped_name) = name

\* C22 witness: a name made of a backslash followed by a quote was escaped.
C22_Witness ==
    /\ Len(log) > 0
    /\ Last.op = "query"
    /\ name = <<Backslash, Quote>>
    /\ escaped_name = <<Backslash, Backslash, Backslash, Quote>>

\* ------------------------------------------- the artifact just uploaded
\* The Drive ids of the directory artifacts this run uploaded.
Uploaded == {log[i].val : i \in OkEvents("upload", "mc")}

\* The entry was created later than every other file of the listing.
StrictlyLatest(u) ==
    \E e \in BeforeEntries :
        /\ e.key = u
        /\ \A d \in BeforeEntries : d.key # u => d.createdTime < e.createdTime

\* A directory-backup run uploaded, and its prune returned Ok without a
\* failed delete.
DirRunPruned ==
    /\ cmd \in {"minecraft", "all"}
    /\ Uploaded # {}
    /\ PruneReturnedOk
    /\ FailedEvents("delete", "mc") = {}

DbFolders == {folders["db"][i] : i \in 1..Len(folders["db"])}
DbKeys == UNION {{content[f][i].key : i \in 1..Len(content[f])} : f \in DbFolders}

\* The database artifacts this run uploaded.
UploadedDb == {log[i].val : i \in OkEvents("upload", "db")}

\* C24: under every command and outcome, every listing, skip and delete of
\* the pruner is made for the directory kind on a folder that is not a
\* database-backup folder, no database artifact is the target of a delete,
\* and the database-backup folders hold every artifact uploaded to them.
C24_RetentionOnlyForDirectoryKind ==
    /\ \A i \in PruneEvents \cup Events("skip") : log[i].stage = "mc"
    /\ pc \in {"list", "check", "sweep"} =>
          stage = "mc" /\ folder_id \notin DbFolders
    /\ DeleteTargets \cap UploadedDb = {}
    /\ DbKeys = UploadedDb

\* C24 witness: run_all with keep = 0 uploaded a database artifact, emptied
\* the directory-backup folder and ended; the database artifact is there.
C24_Witness ==
    /\ cmd = "all"
    /\ pc = "done"
    /\ exit = "SUCCESS"
    /\ keep = 0
    /\ Cardinality(OkEvents("delete", "mc")) >= 2
    /\ UploadedDb # {}
    /\ UploadedDb \subseteq DbKeys

\* ------------------------------------------------------ the prune command
\* C25: under the prune command no producer runs, no local artifact
\* exists, nothing is uploaded or removed locally; at most one folder is
\* created, and only after a search that found no folder of the name; and
\* every delete targets an entry behind the first keep entries of the
\* newest-first listing.
C25_PruneCommandFrame ==
    cmd = "prune" =>
        /\ \A i \in 1..Len(log) :
              log[i].op \notin WorkerOps \cup {"pg_dump", "produce", "panic", "cleanup",
                                              "close", "upload", "remove"}
        /\ \A st \in Stages : localFile[st] = "absent"
        /\ Cardinality(Events("create")) <= 1
        /\ \A i \in Events("create") :
              i > 1 /\ log[i - 1].op = "search" /\ log[i - 1].val = 0
        /\ DeleteTargets \subseteq
              {BeforeListing[i].key : i \in (keep + 1)..Len(BeforeListing)}

\* ------------------------------------------------------- the listing loop
\* The cursor is present and not empty.
NonEmptyCursor(t) == t \notin {NoToken, EmptyToken}

\* The loop of list_all_files_in_folder is running.
Listing == pc = "list"

\* While the loop runs, the last answer carried a non-empty cursor and that
\* cursor is the one the next request sends; once it has ended, the last
\* request failed or its answer carried an absent or empty cursor.
ListingLoopState ==
    /\ (Listing /\ Events("list") = {}) => page_token = NoToken
    /\ (Listing /\ Events("list") # {}) =>
          /\ Last.op = "list" /\ Last.ok
          /\ NonEmptyCursor(next_page_token)
          /\ page_token = next_page_token
    /\ ~Listing =>
          /\ Events("list") # {}
          /\ Last.op = "list"
          /\ \/ ~Last.ok
             \/ Last.ok /\ ~NonEmptyCursor(next_page_token)

\* C26: list_all_files_in_folder leaves its loop exactly when a page
\* request failed or an answer carried an absent or empty cursor, so it
\* keeps running for as long as the server answers with non-empty cursors;
\* each non-empty cursor received is sent with the following request; and
\* when the server ends its cursors after finitely many pages the loop
\* eventually returns.
C26_ListingLoop ==
    /\ []ListingLoopState
    /\ Listing ~> ~Listing

\* C26 witness: the server has handed out every entry and goes on answering
\* with cursors; after MaxPages answers the loop is still running.
C26_Witness ==
    /\ Listing
    /\ Cardinality(Events("list")) >= MaxPages
    /\ Len(all_files) >= Len(BeforeListing)
    /\ Len(BeforeListing) > 0

====
